---- MODULE Spec2Model ----
(***************************************************************************)
(* Model of src/app.py: the SmartUIExtractor frame sampler                 *)
(* (calculate_difference, process_video) and the Streamlit script around   *)
(* it (session state, selection grid, ZIP export).                         *)
(*                                                                         *)
(* Timestamps are milliseconds (cap.get(CAP_PROP_POS_MSEC)); the code      *)
(* divides by 1000.0 and every comparison scales with it, so the model     *)
(* keeps the integer millisecond value and min_time_gap in milliseconds.   *)
(* A ratio (the return value of calculate_difference, the threshold) is a  *)
(* fraction [num, den] compared by cross-multiplication.                   *)
(***************************************************************************)
EXTENDS Integers, Sequences, FiniteSets

VARIABLES
    pc,               \* "idle": no script run in progress; "loop": inside process_video's while loop
    outcome,          \* how the latest process_video call ended: none, running, unopened, returned, raised
    threshold,        \* self.threshold of the extractor of the current run
    min_time_gap,     \* self.min_time_gap of the extractor of the current run
    stream,           \* the (frame, timestamp) pairs cap.read() has yielded in this run
    last_saved_frame, \* process_video local
    last_saved_time,  \* process_video local
    extracted_data,   \* process_video local: the items emitted so far
    diff_calls,       \* number of calculate_difference calls made by this run
    call,             \* arguments and result of the latest calculate_difference call
    folder,           \* names of the files in the output folder "temp_frames"
    extracted_images, \* st.session_state.extracted_images
    processing_done,  \* st.session_state.processing_done
    ui                \* what the latest script run rendered below the upload section

vars == <<pc, outcome, threshold, min_time_gap, stream, last_saved_frame,
          last_saved_time, extracted_data, diff_calls, call, folder,
          extracted_images, processing_done, ui>>

runVars == <<threshold, min_time_gap, stream, last_saved_frame, last_saved_time,
             extracted_data, diff_calls, call>>

-----------------------------------------------------------------------------
(* Bounds of the model *)

MaxFrames == 3      \* frames one stream yields at most
MaxTick == 2        \* timestamps are 0, 4, ..., 4 * MaxTick milliseconds
FramePixels == 2    \* pixels of a frame (frames are 1 x n or n x 1)

(* Program constants *)

BinarizeCutoff == 30      \* cv2.threshold(diff, 30, ...)
BinarizeMaxval == 255     \* cv2.threshold(diff, ..., 255, THRESH_BINARY)
InitialLastSavedTime == -1
OutputFolder == "temp_frames"

-----------------------------------------------------------------------------
(* Inputs *)

Black == <<0, 0, 0>>
Grey30 == <<30, 30, 30>>
Grey31 == <<31, 31, 31>>
Blue == <<255, 0, 0>>          \* BGR order; luminance 29
Palette == {Black, Grey30, Grey31, Blue}

PixelRows(n) == [1..n -> Palette]

\* every frame of FramePixels pixels, as one row or as one column
AllFrames ==
    {[h |-> 1, w |-> FramePixels, px |-> p] : p \in PixelRows(FramePixels)}
    \cup {[h |-> FramePixels, w |-> 1, px |-> p] : p \in PixelRows(FramePixels)}

SolidBlack == [i \in 1..FramePixels |-> Black]
OneChanged == [i \in 1..FramePixels |-> IF i = FramePixels THEN Grey31 ELSE Black]

\* the frames a video stream of the model yields: a static screen, the same
\* screen with one pixel changed, and a frame of another shape
StreamFrames ==
    {[h |-> 1, w |-> FramePixels, px |-> SolidBlack],
     [h |-> 1, w |-> FramePixels, px |-> OneChanged],
     [h |-> FramePixels, w |-> 1, px |-> SolidBlack]}

Times == {4 * k : k \in 0..MaxTick}

\* positive values of min_time_gap (milliseconds) and of threshold
MinTimeGaps == {4, 8}
Thresholds == {[num |-> 3, den |-> 200], [num |-> 1, den |-> 2]}

NoFrame == [h |-> 0, w |-> 0, px |-> <<>>]      \* last_saved_frame = None
NoCall == [img1 |-> NoFrame, img2 |-> NoFrame,
           ret |-> [kind |-> "none", num |-> 0, den |-> 1]]

-----------------------------------------------------------------------------
(* calculate_difference *)

\* cv2.cvtColor(img, COLOR_BGR2GRAY) on one 8-bit pixel: fixed-point
\* 0.114 B + 0.587 G + 0.299 R with 15 fractional bits, rounded
GrayPixel(p) == (p[1] * 3735 + p[2] * 19235 + p[3] * 9798 + 16384) \div 32768

BGR2GRAY(img) == [h |-> img.h, w |-> img.w,
                  px |-> [i \in 1..Len(img.px) |-> GrayPixel(img.px[i])]]

Abs(x) == IF x < 0 THEN -x ELSE x

SameShapeBySize(a, b) == a.h * a.w = b.h * b.w

\* cv2.absdiff accepts two arrays only when their shapes agree
SameShape(a, b) == a.h = b.h /\ a.w = b.w

AbsDiff(g1, g2) == [h |-> g1.h, w |-> g1.w,
                    px |-> [i \in 1..Len(g1.px) |-> Abs(g1.px[i] - g2.px[i])]]

ThresholdBinaryInclusive(v, thresh, maxval) == IF v >= thresh THEN maxval ELSE 0

\* cv2.threshold(..., THRESH_BINARY) on one pixel
ThresholdBinary(v, thresh, maxval) == IF v > thresh THEN maxval ELSE 0

RECURSIVE CountNonZeroUpTo(_, _)
CountNonZeroUpTo(px, n) ==
    IF n = 0 THEN 0
    ELSE CountNonZeroUpTo(px, n - 1) + (IF px[n] # 0 THEN 1 ELSE 0)

CountNonZero(px) == CountNonZeroUpTo(px, Len(px))

calculate_difference(img1, img2) ==
    LET gray1 == BGR2GRAY(img1)
        gray2 == BGR2GRAY(img2)
    IN  IF ~SameShape(gray1, gray2)
        THEN [kind |-> "error", num |-> 0, den |-> 1]
        ELSE LET d == AbsDiff(gray1, gray2)
                 thresh == [i \in 1..Len(d.px) |->
                              ThresholdBinary(d.px[i], BinarizeCutoff, BinarizeMaxval)]
                 non_zero_count == CountNonZero(thresh)
                 total_pixels == d.h * d.w
             IN  [kind |-> "value", num |-> non_zero_count, den |-> total_pixels]

-----------------------------------------------------------------------------
(* process_video *)

\* f"{x:.2f}" of x = ms / 1000.0, as hundredths: the nearest hundredth of the
\* double nearest to ms / 1000; a tie in decimal is decided by that double
TieDown == {15, 45, 75, 105, 125, 145, 155, 175, 185, 205, 215, 235, 245, 285, 295}

Hundredths(ms) ==
    IF ms % 10 = 5 /\ ms \in TieDown THEN ms \div 10 ELSE (ms + 5) \div 10

\* f"ui_{current_timestamp:.2f}s.png"
FileName(ms) ==
    LET c == Hundredths(ms)
    IN  <<"ui_", c \div 100, ".", (c % 100) \div 10, c % 10, "s.png">>

\* os.path.join(output_folder, filename)
SavePath(filename) == [dir |-> OutputFolder, name |-> filename]

Item(ms) == [path |-> SavePath(FileName(ms)), timestamp |-> ms, filename |-> FileName(ms)]

IsFirstSaveInverted(lsf) == lsf # NoFrame

\* last_saved_frame is None
IsFirstSave(lsf) == lsf = NoFrame

GapIgnored(ts, lst, gap) == ts > lst

GapAbsolute(ts, lst, gap) == Abs(ts - lst) >= gap

\* (current_timestamp - last_saved_time) >= self.min_time_gap
GapElapsed(ts, lst, gap) == ts - lst >= gap

ExceedsOrEquals(d, thr) == d.num * thr.den >= thr.num * d.den

\* diff > self.threshold
ExceedsThreshold(d, thr) == d.num * thr.den > thr.num * d.den

\* lines 61-67: "save", "skip" or "raise" (cv2.error out of calculate_difference)
ShouldSave(lsf, lst, frame, ts, thr, gap) ==
    IF IsFirstSave(lsf) THEN "save"
    ELSE IF GapElapsed(ts, lst, gap)
         THEN LET d == calculate_difference(lsf, frame)
              IN  IF d.kind = "error" THEN "raise"
                  ELSE IF ExceedsThreshold(d, thr) THEN "save" ELSE "skip"
         ELSE "skip"

\* whether lines 61-67 reach the call of calculate_difference
CallsDifference(lsf, lst, ts, gap) == ~IsFirstSave(lsf) /\ GapElapsed(ts, lst, gap)

-----------------------------------------------------------------------------
(* The Streamlit script: selection and download section *)

BlankUi == [section |-> "none", checked |-> {}, zip_built |-> FALSE,
            zip |-> <<>>, warning |-> "none"]

RECURSIVE AllUpTo(_, _)
AllUpTo(images, n) ==
    IF n = 0 THEN <<>> ELSE Append(AllUpTo(images, n - 1), images[n])

AllFiles(images, checked) == AllUpTo(images, Len(images))

RECURSIVE SelectedUpTo(_, _, _)
SelectedUpTo(images, checked, n) ==
    IF n = 0 THEN <<>>
    ELSE IF n \in checked
         THEN Append(SelectedUpTo(images, checked, n - 1), images[n])
         ELSE SelectedUpTo(images, checked, n - 1)

\* lines 131-147: the items whose checkbox chk_<idx> is ticked, in grid order
SelectedFiles(images, checked) == SelectedUpTo(images, checked, Len(images))

\* lines 155-158: zf.write(item['path'], item['filename']) for each selected item
ZipEntries(selected) ==
    [k \in 1..Len(selected) |->
        [arcname |-> selected[k].filename, source |-> selected[k].path]]

ShowSelectionWhenDone(done, images) == done

\* line 126
ShowSelection(done, images) == done /\ images # <<>>

\* st.image(item['path']) and zf.write(item['path'], ...) need the file to exist
AllPathsExist(images, files) ==
    \A i \in 1..Len(images) :
        images[i].path.dir = OutputFolder /\ images[i].path.name \in files

\* lines 126-173: what one script run renders from the session state, the
\* checkbox states and the files on disk
Render(images, done, checked, files) ==
    IF ShowSelection(done, images)
    THEN IF ~AllPathsExist(images, files)
         THEN [BlankUi EXCEPT !.section = "exception"]
         ELSE LET selected_files == SelectedFiles(images, checked)
              IN  IF Len(selected_files) > 0
                  THEN [section |-> "selection", checked |-> checked,
                        zip_built |-> TRUE, zip |-> ZipEntries(selected_files),
                        warning |-> "none"]
                  ELSE [section |-> "selection", checked |-> checked,
                        zip_built |-> FALSE, zip |-> <<>>,
                        warning |-> "tick_at_least_one"]
    ELSE IF done /\ images = <<>>
         THEN [BlankUi EXCEPT !.section = "no_change", !.warning = "no_change_detected"]
         ELSE BlankUi

-----------------------------------------------------------------------------
(* State machine *)

Init ==
    /\ pc = "idle"
    /\ outcome = "none"
    /\ threshold = [num |-> 3, den |-> 200]
    /\ min_time_gap = 4
    /\ stream = <<>>
    /\ last_saved_frame = NoFrame
    /\ last_saved_time = InitialLastSavedTime
    /\ extracted_data = <<>>
    /\ diff_calls = 0
    /\ call = NoCall
    /\ folder = {}
    /\ extracted_images = <<>>
    /\ processing_done = FALSE
    /\ ui = BlankUi

\* button clicked, cap.isOpened() is false: process_video returns [] at line 35,
\* then lines 119-123 and the rest of the script run
ClickExtractUnopened(thr, gap) ==
    /\ pc = "idle"
    /\ outcome' = "unopened"
    /\ threshold' = thr
    /\ min_time_gap' = gap
    /\ stream' = <<>>
    /\ last_saved_frame' = NoFrame
    /\ last_saved_time' = InitialLastSavedTime
    /\ extracted_data' = <<>>
    /\ diff_calls' = 0
    /\ call' = NoCall
    /\ extracted_images' = <<>>
    /\ processing_done' = TRUE
    /\ ui' = Render(<<>>, TRUE, {}, folder)
    /\ UNCHANGED <<pc, folder>>

\* button clicked, the capture opens: lines 37-47, up to the loop
ClickExtractOpened(thr, gap) ==
    /\ pc = "idle"
    /\ pc' = "loop"
    /\ outcome' = "running"
    /\ threshold' = thr
    /\ min_time_gap' = gap
    /\ stream' = <<>>
    /\ last_saved_frame' = NoFrame
    /\ last_saved_time' = InitialLastSavedTime
    /\ extracted_data' = <<>>
    /\ diff_calls' = 0
    /\ call' = NoCall
    /\ folder' = {}
    /\ ui' = BlankUi
    /\ UNCHANGED <<extracted_images, processing_done>>

\* one iteration of the while loop with ret = True: lines 50-79
ReadFrame(frame, ts) ==
    /\ pc = "loop"
    /\ Len(stream) < MaxFrames
    /\ stream' = Append(stream, [frame |-> frame, timestamp |-> ts])
    /\ LET decision == ShouldSave(last_saved_frame, last_saved_time, frame, ts,
                                  threshold, min_time_gap)
           called == CallsDifference(last_saved_frame, last_saved_time, ts, min_time_gap)
       IN  /\ diff_calls' = IF called THEN diff_calls + 1 ELSE diff_calls
           /\ call' = IF called
                      THEN [img1 |-> last_saved_frame, img2 |-> frame,
                            ret |-> calculate_difference(last_saved_frame, frame)]
                      ELSE call
           /\ CASE decision = "save" ->
                     /\ folder' = folder \cup {FileName(ts)}
                     /\ extracted_data' = Append(extracted_data, Item(ts))
                     /\ last_saved_frame' = frame
                     /\ last_saved_time' = ts
                     /\ UNCHANGED <<pc, outcome, ui>>
                [] decision = "skip" ->
                     UNCHANGED <<folder, extracted_data, last_saved_frame,
                                 last_saved_time, pc, outcome, ui>>
                [] decision = "raise" ->
                     /\ pc' = "idle"
                     /\ outcome' = "raised"
                     /\ ui' = [BlankUi EXCEPT !.section = "exception"]
                     /\ UNCHANGED <<folder, extracted_data, last_saved_frame,
                                    last_saved_time>>
    /\ UNCHANGED <<threshold, min_time_gap, extracted_images, processing_done>>

\* ret = False: lines 51-52, 81-82, then lines 119-123 and the rest of the script run
EndOfStream(checked) ==
    /\ pc = "loop"
    /\ pc' = "idle"
    /\ outcome' = "returned"
    /\ extracted_images' = extracted_data
    /\ processing_done' = TRUE
    /\ ui' = Render(extracted_data, TRUE, checked, folder)
    /\ UNCHANGED <<runVars, folder>>

\* a script run without a click on the button (a checkbox was toggled)
Rerun(checked) ==
    /\ pc = "idle"
    /\ ui' = Render(extracted_images, processing_done, checked, folder)
    /\ UNCHANGED <<pc, outcome, runVars, folder, extracted_images, processing_done>>

Next ==
    \/ \E thr \in Thresholds, gap \in MinTimeGaps : ClickExtractUnopened(thr, gap)
    \/ \E thr \in Thresholds, gap \in MinTimeGaps : ClickExtractOpened(thr, gap)
    \/ \E frame \in StreamFrames, ts \in Times : ReadFrame(frame, ts)
    \/ \E checked \in SUBSET (1..Len(extracted_data)) : EndOfStream(checked)
    \/ \E checked \in SUBSET (1..Len(extracted_images)) : Rerun(checked)

Spec == Init /\ [][Next]_vars

-----------------------------------------------------------------------------
(* calculate_difference on its own: every pair of frames *)

InitDiff ==
    /\ pc = "idle"
    /\ outcome = "none"
    /\ threshold = [num |-> 3, den |-> 200]
    /\ min_time_gap = 4
    /\ stream = <<>>
    /\ last_saved_frame = NoFrame
    /\ last_saved_time = InitialLastSavedTime
    /\ extracted_data = <<>>
    /\ diff_calls = 0
    /\ call \in {[img1 |-> a, img2 |-> b, ret |-> [kind |-> "pending", num |-> 0, den |-> 1]] :
                    a \in AllFrames, b \in AllFrames}
    /\ folder = {}
    /\ extracted_images = <<>>
    /\ processing_done = FALSE
    /\ ui = BlankUi

CallDifference ==
    /\ call.ret.kind = "pending"
    /\ call' = [call EXCEPT !.ret = calculate_difference(call.img1, call.img2)]
    /\ diff_calls' = diff_calls + 1
    /\ UNCHANGED <<pc, outcome, threshold, min_time_gap, stream, last_saved_frame,
                   last_saved_time, extracted_data, folder, extracted_images,
                   processing_done, ui>>

NextDiff == CallDifference

SpecDiff == InitDiff /\ [][NextDiff]_vars

-----------------------------------------------------------------------------
(* Properties *)

TimestampsOf(items) == [i \in 1..Len(items) |-> items[i].timestamp]

NonDecreasing(ts) == \A i \in 1..(Len(ts) - 1) : ts[i] <= ts[i + 1]

StrictlyIncreasing(ts) == \A i \in 1..(Len(ts) - 1) : ts[i] < ts[i + 1]

\* a is b with some elements left out (greedy match from the end)
RECURSIVE IsSubsequence(_, _)
IsSubsequence(a, b) ==
    IF Len(a) = 0 THEN TRUE
    ELSE IF Len(b) = 0 THEN FALSE
    ELSE IF a[Len(a)] = b[Len(b)]
         THEN IsSubsequence(SubSeq(a, 1, Len(a) - 1), SubSeq(b, 1, Len(b) - 1))
         ELSE IsSubsequence(a, SubSeq(b, 1, Len(b) - 1))

GapsRespected(items, gap) ==
    \A i \in 1..(Len(items) - 1) : items[i + 1].timestamp - items[i].timestamp >= gap

\* C1: once an opened stream has yielded a frame, process_video has emitted
\* an item, the first emitted item carries the first frame's timestamp, and a
\* run that returns hands exactly the emitted items to the caller, whatever
\* threshold and min_time_gap are.
C1_FirstFrameEmitted ==
    Len(stream) >= 1 =>
        /\ Len(extracted_data) >= 1
        /\ extracted_data[1].timestamp = stream[1].timestamp
        /\ outcome = "returned" => extracted_images = extracted_data

C1_Witness ==
    /\ outcome = "returned"
    /\ Len(stream) = MaxFrames
    /\ stream[1].timestamp > 0
    /\ Len(extracted_images) >= 1
    /\ extracted_images[1].timestamp = stream[1].timestamp

\* C2: for a stream with non-decreasing timestamps, consecutive emitted items
\* (and consecutive items of the returned list) are at least min_time_gap apart.
C2_MinGapBetweenItems ==
    NonDecreasing(TimestampsOf(stream)) =>
        /\ GapsRespected(extracted_data, min_time_gap)
        /\ outcome = "returned" => GapsRespected(extracted_images, min_time_gap)

C2_Witness ==
    /\ outcome = "returned"
    /\ NonDecreasing(TimestampsOf(stream))
    /\ Len(stream) = 3
    /\ Len(extracted_images) = 2
    /\ min_time_gap = 8

\* C3: for every stream (timestamps in any order) and every positive
\* min_time_gap, the emitted timestamps are strictly increasing and the items
\* follow the order of their frames in the stream.
C3_StrictlyIncreasingInOrder ==
    min_time_gap > 0 =>
        /\ StrictlyIncreasing(TimestampsOf(extracted_data))
        /\ IsSubsequence(TimestampsOf(extracted_data), TimestampsOf(stream))
        /\ outcome = "returned" => StrictlyIncreasing(TimestampsOf(extracted_images))

C3_Witness ==
    /\ outcome = "returned"
    /\ Len(stream) = 3
    /\ ~NonDecreasing(TimestampsOf(stream))
    /\ Len(extracted_images) = 2

\* C4: when a run returns (source unopened and zero-frame runs included), every
\* returned item's path names a file of the output folder and the folder holds
\* no other file.
C4_FolderMatchesReturnedItems ==
    (pc = "idle" /\ outcome \in {"returned", "unopened"}) =>
        folder = {extracted_images[i].path.name : i \in 1..Len(extracted_images)}

\* C5: within one run no two emitted items have the same filename.
C5_FilenamesUnique ==
    \A i, j \in 1..Len(extracted_data) :
        i # j => extracted_data[i].filename # extracted_data[j].filename

\* C6: after a run whose source could not be opened or yielded zero frames,
\* the returned list is empty, nothing was raised, and the script shows no
\* selection section and builds no archive.
C6_EmptyRunShowsNoExport ==
    (pc = "idle" /\ (outcome = "unopened" \/ (outcome = "returned" /\ stream = <<>>))) =>
        /\ extracted_images = <<>>
        /\ ui.section \notin {"selection", "exception"}
        /\ ~ui.zip_built
        /\ ui.zip = <<>>

C6_Witness ==
    /\ pc = "idle"
    /\ outcome = "unopened"
    /\ folder # {}
    /\ ui.section = "no_change"

RankIn(S, i) == Cardinality({j \in S : j <= i})

\* C7: when the export section is rendered with the set S of ticked items: if S
\* is empty no archive is built and the warning is shown; otherwise the archive
\* has exactly one entry per item of S, named by the item's filename and read
\* from the item's path, and nothing else.
C7_ArchiveHoldsSelection ==
    ui.section = "selection" =>
        LET S == ui.checked
        IN  /\ S \subseteq 1..Len(extracted_images)
            /\ S = {} => (~ui.zip_built /\ ui.zip = <<>> /\ ui.warning = "tick_at_least_one")
            /\ S # {} =>
                 /\ ui.zip_built
                 /\ ui.warning = "none"
                 /\ Len(ui.zip) = Cardinality(S)
                 /\ \A i \in S :
                      ui.zip[RankIn(S, i)] =
                          [arcname |-> extracted_images[i].filename,
                           source |-> extracted_images[i].path]

C7_Witness ==
    /\ ui.section = "selection"
    /\ Len(extracted_images) = 3
    /\ ui.checked = {1, 3}
    /\ Len(ui.zip) = 2

FrameRead == pc = "loop" /\ Len(stream') = Len(stream) + 1

C8_Step ==
    (FrameRead /\ last_saved_frame # NoFrame) =>
        LET f == stream'[Len(stream')]
            gapok == f.timestamp - last_saved_time >= min_time_gap
            comparable == f.frame.h = last_saved_frame.h /\ f.frame.w = last_saved_frame.w
            ratio == calculate_difference(last_saved_frame, f.frame)
            saved == /\ extracted_data' = Append(extracted_data, Item(f.timestamp))
                     /\ FileName(f.timestamp) \in folder'
        IN  /\ ~gapok => (~saved /\ diff_calls' = diff_calls)
            /\ (gapok /\ comparable) =>
                 /\ diff_calls' = diff_calls + 1
                 /\ saved <=> ratio.num * threshold.den > threshold.num * ratio.den
            /\ saved => (last_saved_frame' = f.frame /\ last_saved_time' = f.timestamp)
            /\ ~saved => UNCHANGED <<last_saved_frame, last_saved_time, extracted_data, folder>>

C8_IdenticalFrames ==
    (outcome = "returned" /\ Len(stream) >= 1
        /\ \A i \in 1..Len(stream) : stream[i].frame = stream[1].frame)
    => Len(extracted_images) = 1

\* C8: a frame after the first is saved exactly when min_time_gap has elapsed
\* since the last save and the difference ratio to the last saved frame is
\* strictly above threshold; inside the gap the difference is not computed; a
\* skipped frame leaves last_saved_frame and last_saved_time alone; a stream of
\* identical frames yields one item.
C8_SaveRule == [][C8_Step]_vars /\ []C8_IdenticalFrames

C8_Witness ==
    /\ outcome = "returned"
    /\ Len(stream) = 3
    /\ stream[2].timestamp - stream[1].timestamp < min_time_gap
    /\ diff_calls = 1
    /\ call.ret.kind = "value"
    /\ call.ret.num > 0
    /\ call.ret.num * threshold.den = threshold.num * call.ret.den
    /\ Len(extracted_images) = 1

C9_Step ==
    LET f == stream'[Len(stream')]
    IN  (/\ FrameRead
         /\ last_saved_frame # NoFrame
         /\ f.timestamp - last_saved_time >= min_time_gap
         /\ ~(f.frame.h = last_saved_frame.h /\ f.frame.w = last_saved_frame.w))
        => /\ outcome' = "raised"
           /\ pc' = "idle"
           /\ ui'.section = "exception"
           /\ ui'.warning # "no_change_detected"
           /\ UNCHANGED <<extracted_images, processing_done, extracted_data, folder,
                          last_saved_frame, last_saved_time>>

\* C9: a frame that reaches the difference check with a shape other than the
\* last saved frame's makes the run raise: no list is returned, the script run
\* ends in an exception and not in the "no change detected" warning, and the
\* frame is neither skipped nor saved.
C9_MismatchAborts == [][C9_Step]_vars

C9_Witness ==
    /\ outcome = "raised"
    /\ pc = "idle"
    /\ ui.section = "exception"
    /\ Len(extracted_data) >= 1
    /\ processing_done

LumaDelta(img1, img2, i) == Abs(GrayPixel(img1.px[i]) - GrayPixel(img2.px[i]))

\* C10: for two frames of one shape calculate_difference returns the number of
\* pixels whose luminance differs by more than 30 over the number of pixels:
\* 0 when every delta is at most 30 (30 itself included), 1 when every delta
\* is above 30.
C10_ChangedPixelRatio ==
    call.ret.kind = "value" =>
        LET n == Len(call.img1.px)
            changed == {i \in 1..n : LumaDelta(call.img1, call.img2, i) > 30}
        IN  /\ call.ret.den = n
            /\ call.ret.num = Cardinality(changed)
            /\ (\A i \in 1..n : LumaDelta(call.img1, call.img2, i) <= 30) => call.ret.num = 0
            /\ (\A i \in 1..n : LumaDelta(call.img1, call.img2, i) > 30)
                  => call.ret.num = call.ret.den

C10_Witness ==
    /\ call.ret.kind = "value"
    /\ \E i \in 1..Len(call.img1.px) : LumaDelta(call.img1, call.img2, i) = 30
    /\ \A i \in 1..Len(call.img1.px) : LumaDelta(call.img1, call.img2, i) <= 30
    /\ call.ret.num = 0

====
